---- MODULE Spec2Model ----
(***************************************************************************)
(* masterstat: query QuakeWorld master servers over UDP.                   *)
(*                                                                         *)
(* Bytes are naturals 0..255, byte buffers are sequences of bytes, and a   *)
(* Rust String is the sequence of its bytes (ASCII codes: '0' = 48,        *)
(* '.' = 46), so that String's Ord is the lexicographic order on           *)
(* sequences.  A Result is a record [ok, val, err]; an anyhow error is a   *)
(* record [tag, cause]: tag is the prefix put in front of the cause by     *)
(* map_err ("none" when the cause is converted by `?` alone).              *)
(***************************************************************************)
EXTENDS Integers, Sequences, FiniteSets, TLC

\* ------------------------------------------------------------ bounds
MaxMasters == 2
MaxRecords == 2
MaxTail == 5
MaxList == 3

\* --------------------------------------------------------- constants
RAW_ADDRESS_SIZE == 6
BUFFER_SIZE == 8192
SERVERS_COMMAND == <<99, 10, 0>>
SERVERS_RESPONSE_HEADER == <<255, 255, 255, 255, 100, 10>>

VARIABLES
    N,          \* master_addresses.len()
    timeout,    \* Option<Duration>: "None", "Zero" (Some(0)) or "Some"
    pcMain,     \* position of server_addresses_from_many
    next,       \* index of the next master the spawn loop handles
    pc,         \* pc[m]: position of the task spawned for master m
    inflight,   \* inflight[m]: what master m does with the query it got
    io,         \* io[m]: the Result of udp::send_and_receive in task m
    ret,        \* ret[m]: the Result of server_addresses in task m
    k,          \* k[m]: how many of its servers task m has appended
    mutex,      \* holder of result_mux's lock, 0 when free
    result,     \* the Vec inside result_mux
    returned,   \* the value server_addresses_from_many returned
    sent,       \* sent[m]: the datagrams sent to master m
    recvs,      \* recvs[m]: the number of recv calls on m's socket
    response,   \* argument of parse_servers_response
    parsed,     \* its Result
    parsePc,
    servers,    \* argument of sorted_and_unique
    sorted,     \* its value
    sortedTwice,\* its value on its own output
    sortPc

fanVars == <<N, timeout, pcMain, next, pc, inflight, io, ret, k, mutex,
             result, returned, sent, recvs>>
parseVars == <<response, parsed, parsePc>>
sortVars == <<servers, sorted, sortedTwice, sortPc>>
vars == <<fanVars, parseVars, sortVars>>

\* ------------------------------------------------------------ Result
NoErr == [tag |-> "", cause |-> ""]
Ok(v) == [ok |-> TRUE, val |-> v, err |-> NoErr]
Err(e) == [ok |-> FALSE, val |-> <<>>, err |-> e]
Pending == Err([tag |-> "pending", cause |-> "pending"])
InvalidResponse == [tag |-> "none", cause |-> "Invalid response"]

Min(a, b) == IF a < b THEN a ELSE b

\* F(x), with x evaluated once, before F is applied to it.
Then(x, F(_)) == CHOOSE r \in { F(v) : v \in {x} } : TRUE

\* ---------------------------------------------------- server_address
\* u8::to_string: the decimal digits of a value below 256, no leading zero.
u8_to_string(b) ==
    IF b < 10 THEN <<48 + b>>
    ELSE IF b < 100 THEN <<48 + (b \div 10), 48 + (b % 10)>>
    ELSE <<48 + (b \div 100), 48 + ((b \div 10) % 10), 48 + (b % 10)>>

\* [String; 4]::join(sep)
join(strs, sep) ==
    strs[1] \o sep \o strs[2] \o sep \o strs[3] \o sep \o strs[4]

\* RawServerAddress::read_from: Some (a one-element sequence) iff the slice
\* has the size of the struct, None (the empty sequence) otherwise.
read_from(bytes) ==
    IF Len(bytes) = RAW_ADDRESS_SIZE
    THEN <<[ip |-> SubSeq(bytes, 1, 4), port |-> SubSeq(bytes, 5, 6)]>>
    ELSE <<>>

u16_le(bs) == bs[2] * 256 + bs[1]
\* U16<BigEndian> -> u16
u16_be(bs) == bs[1] * 256 + bs[2]

\* impl From<RawServerAddress> for ServerAddress
ServerAddressFrom(raw) ==
    [ip |-> join([i \in 1..4 |-> u8_to_string(raw.ip[i])], <<46>>),
     port |-> u16_be(raw.port)]

\* Ord for String (-1, 0, 1): the bytes of the common prefix decide at the
\* first difference, the lengths when there is none.
str_cmp(a, b) ==
    LET n == Min(Len(a), Len(b))
        diff == { i \in 1..n : a[i] # b[i] }
    IN IF diff = {}
       THEN (IF Len(a) < Len(b) THEN -1 ELSE IF Len(a) > Len(b) THEN 1 ELSE 0)
       ELSE LET d == CHOOSE i \in diff : \A j \in diff : i <= j
            IN IF a[d] < b[d] THEN -1 ELSE 1

\* derive(PartialOrd, Ord) on ServerAddress: ip, then port.
cmp(a, b) ==
    LET c == str_cmp(a.ip, b.ip)
    IN IF c # 0 THEN c
       ELSE IF a.port < b.port THEN -1
       ELSE IF a.port > b.port THEN 1
       ELSE 0

\* ----------------------------------------------------------- command
\* Vec::sort, the stable ascending sort by Ord: element i goes behind the
\* elements smaller than it and the equal ones that came before it.
sort(s) ==
    LET before(i) == { j \in 1..Len(s) :
                         \/ cmp(s[j], s[i]) < 0
                         \/ cmp(s[j], s[i]) = 0 /\ j < i }
    IN [p \in 1..Len(s) |->
           s[CHOOSE i \in 1..Len(s) : Cardinality(before(i)) = p - 1]]

dedup_none(s) == s
\* Vec::dedup: drops every element equal to the one before it.
dedup(s) ==
    LET keep == { i \in 1..Len(s) : i = 1 \/ s[i] # s[i - 1] }
    IN [p \in 1..Cardinality(keep) |->
           s[CHOOSE i \in keep : Cardinality({ j \in keep : j < i }) = p - 1]]

sorted_and_unique(server_addresses_) ==
    Then(Then(server_addresses_, sort), dedup)

starts_with_short(s, p) == Len(s) >= 4 /\ SubSeq(s, 1, 4) = SubSeq(p, 1, 4)
\* <[u8]>::starts_with
starts_with(s, p) == Len(s) >= Len(p) /\ SubSeq(s, 1, Len(p)) = p

\* <[u8]>::chunks: consecutive slices of n elements, the last may be shorter.
chunks(s, n) ==
    [i \in 1..((Len(s) + n - 1) \div n) |->
        SubSeq(s, (i - 1) * n + 1, Min(i * n, Len(s)))]

\* .filter_map(RawServerAddress::read_from): the values of the Somes.
filter_map_read_from(cs) ==
    LET some == SelectSeq(cs, LAMBDA c : read_from(c) # <<>>)
    IN [i \in 1..Len(some) |-> read_from(some[i])[1]]

parse_servers_response(response_) ==
    IF ~starts_with(response_, SERVERS_RESPONSE_HEADER)
    THEN Err(InvalidResponse)
    ELSE LET body == SubSeq(response_, Len(SERVERS_RESPONSE_HEADER) + 1,
                            Len(response_))
             full(cs) == SelectSeq(cs, LAMBDA b : Len(b) = RAW_ADDRESS_SIZE)
             collect(raws) ==
                 [i \in 1..Len(raws) |-> Then(raws[i], ServerAddressFrom)]
         IN Ok(Then(Then(Then(chunks(body, RAW_ADDRESS_SIZE), full),
                         filter_map_read_from),
                    collect))

server_addresses_swallow(sr) ==
    LET rest(p) == Ok(sorted_and_unique(p.val))
    IN IF ~sr.ok THEN sr ELSE Then(parse_servers_response(sr.val), rest)
\* server_addresses, given the Result of udp::send_and_receive.
server_addresses(sr) ==
    LET rest(p) == IF ~p.ok THEN p ELSE Ok(sorted_and_unique(p.val))
    IN IF ~sr.ok THEN sr ELSE Then(parse_servers_response(sr.val), rest)

\* --------------------------------------------------------------- udp
SendOutcomes == {"ok", "bind_fail", "connect_fail", "send_fail"}

\* udp::connect: bind, then connect.
udp_connect(o) ==
    IF o = "bind_fail" THEN Err([tag |-> "udp::connect", cause |-> "bind"])
    ELSE IF o = "connect_fail" THEN Err([tag |-> "none", cause |-> "connect"])
    ELSE Ok(<<>>)

\* udp::send: connect, then send one datagram.
udp_send(o) ==
    LET s == udp_connect(o)
    IN IF ~s.ok THEN s
       ELSE IF o = "send_fail"
            THEN Err([tag |-> "udp::send", cause |-> "send"])
            ELSE s

recv_ready_no_timeout(t, arrival) == arrival.kind # "silent"
\* recv blocks until a datagram or an error arrives, or the read timeout
\* expires; Some(0) makes set_read_timeout fail before recv is called.
recv_ready(t, arrival) == arrival.kind # "silent" \/ t # "None"

\* udp::receive
udp_receive(t, arrival) ==
    IF t = "Zero" THEN Err([tag |-> "none", cause |-> "set_read_timeout"])
    ELSE IF arrival.kind = "reply"
         THEN Ok(SubSeq(arrival.data, 1, Min(Len(arrival.data), BUFFER_SIZE)))
    ELSE IF arrival.kind = "refused"
         THEN Err([tag |-> "udp::receive", cause |-> "recv"])
    ELSE Err([tag |-> "udp::receive", cause |-> "timeout"])

\* ------------------------------------------------------------ inputs
RawSamples ==
    { <<1, 1, 1, 10, 0, 1>>, <<1, 1, 1, 9, 0, 1>>, <<1, 1, 1, 9, 0, 2>>,
      <<1, 1, 1, 9, 0, 10>>, <<1, 1, 1, 9, 1, 0>>,
      <<192, 168, 0, 255, 117, 48>> }

RECURSIVE Flatten(_)
Flatten(ss) == IF ss = <<>> THEN <<>> ELSE Head(ss) \o Flatten(Tail(ss))

HeaderCandidates ==
    { SubSeq(SERVERS_RESPONSE_HEADER, 1, n) : n \in 0..6 }
    \cup { [SERVERS_RESPONSE_HEADER EXCEPT ![i] = 0] : i \in 1..6 }

Bodies ==
    { Flatten(f) : f \in UNION { [1..n -> RawSamples] : n \in 0..MaxRecords } }

Tails == { [i \in 1..n |-> 255] : n \in 0..MaxTail }

ResponseInputs ==
    { h \o b \o t : h \in HeaderCandidates, b \in Bodies, t \in Tails }

AddressPool == { ServerAddressFrom(read_from(r)[1]) : r \in RawSamples }

ListInputs == UNION { [1..n -> AddressPool] : n \in 0..MaxList }

REC_A == <<192, 168, 1, 2, 117, 48>>
REC_B == <<192, 168, 1, 1, 117, 48>>
REC_C == <<10, 0, 0, 1, 107, 108>>

Arrival(kind, data) == [kind |-> kind, data |-> data]
NoArrival == Arrival("none", <<>>)

\* What a master may do with a query: not answer, answer with an ICMP
\* error, or answer with a datagram.
MasterBehaviours ==
    { Arrival("silent", <<>>), Arrival("refused", <<>>),
      Arrival("reply", <<255, 255>>),
      Arrival("reply", SERVERS_RESPONSE_HEADER \o REC_A \o REC_B \o REC_A \o <<7>>),
      Arrival("reply", SERVERS_RESPONSE_HEADER \o REC_A \o REC_C) }

\* --------------------------------------------------------------- idle
FanIdle ==
    /\ N = 0 /\ timeout = "None" /\ pcMain = "off" /\ next = 1
    /\ pc = <<>> /\ inflight = <<>> /\ io = <<>> /\ ret = <<>> /\ k = <<>>
    /\ mutex = 0 /\ result = <<>> /\ returned = <<>>
    /\ sent = <<>> /\ recvs = <<>>

ParseIdle == response = <<>> /\ parsed = Pending /\ parsePc = "off"

SortIdle ==
    servers = <<>> /\ sorted = <<>> /\ sortedTwice = <<>> /\ sortPc = "off"

\* ------------------------------------------- server_addresses_from_many
Init ==
    /\ N \in 0..MaxMasters
    /\ timeout \in {"None", "Zero", "Some"}
    /\ pcMain = "spawn"
    /\ next = 1
    /\ pc = [m \in 1..N |-> "idle"]
    /\ inflight = [m \in 1..N |-> NoArrival]
    /\ io = [m \in 1..N |-> Pending]
    /\ ret = [m \in 1..N |-> Pending]
    /\ k = [m \in 1..N |-> 0]
    /\ mutex = 0
    /\ result = <<>>
    /\ returned = <<>>
    /\ sent = [m \in 1..N |-> <<>>]
    /\ recvs = [m \in 1..N |-> 0]
    /\ ParseIdle
    /\ SortIdle

\* tokio::spawn of the task for the next master; the task may start at once.
MainSpawn ==
    /\ pcMain = "spawn"
    /\ next <= N
    /\ pc' = [pc EXCEPT ![next] = "send"]
    /\ next' = next + 1
    /\ UNCHANGED <<N, timeout, pcMain, inflight, io, ret, k, mutex, result,
                   returned, sent, recvs, parseVars, sortVars>>

join_any_done == N = 0 \/ \E m \in 1..N : pc[m] = "done"
\* join_all(task_handles).await is ready when every task has finished.
join_all_done == \A m \in 1..N : pc[m] = "done"

MainJoinAll ==
    /\ pcMain = "spawn"
    /\ next = N + 1
    /\ join_all_done
    /\ pcMain' = "read"
    /\ UNCHANGED <<N, timeout, next, pc, inflight, io, ret, k, mutex, result,
                   returned, sent, recvs, parseVars, sortVars>>

final_unsorted(acc) == acc
final_result(acc) == sorted_and_unique(acc)

lock_always == TRUE
\* Mutex::lock().await is ready when nobody holds the lock.
lock_available == mutex = 0

\* result_mux.lock().await.clone(): the guard is dropped with the statement.
MainRead ==
    /\ pcMain = "read"
    /\ lock_available
    /\ returned' = final_result(result)
    /\ pcMain' = "returned"
    /\ UNCHANGED <<N, timeout, next, pc, inflight, io, ret, k, mutex, result,
                   sent, recvs, parseVars, sortVars>>

retry_pc(r) ==
    IF r.ok THEN "lock" ELSE IF r.err.cause = "timeout" THEN "send" ELSE "done"
\* if let Ok(servers) = server_addresses(..) { lock, extend }: an Err ends
\* the task.
task_pc_after(r) == IF r.ok THEN "lock" ELSE "done"

\* The task runs server_addresses up to the end of udp::send.
TaskSend(m) ==
    /\ m \in 1..N
    /\ pc[m] = "send"
    /\ \E o \in SendOutcomes :
         \E s \in {udp_send(o)} :
            IF s.ok
            THEN /\ sent' = [sent EXCEPT ![m] = Append(@, SERVERS_COMMAND)]
                 /\ \E a \in MasterBehaviours :
                        inflight' = [inflight EXCEPT ![m] = a]
                 /\ pc' = [pc EXCEPT ![m] = "recv"]
                 /\ UNCHANGED <<io, ret>>
            ELSE /\ io' = [io EXCEPT ![m] = s]
                 /\ ret' = [ret EXCEPT ![m] = server_addresses(s)]
                 /\ pc' = [pc EXCEPT ![m] = task_pc_after(server_addresses(s))]
                 /\ UNCHANGED <<sent, inflight>>
    /\ UNCHANGED <<N, timeout, pcMain, next, k, mutex, result, returned,
                   recvs, parseVars, sortVars>>

\* udp::receive and the rest of server_addresses.
TaskReceive(m) ==
    /\ m \in 1..N
    /\ pc[m] = "recv"
    /\ recv_ready(timeout, inflight[m])
    /\ \E r \in {udp_receive(timeout, inflight[m])} :
         \E res \in {server_addresses(r)} :
            /\ io' = [io EXCEPT ![m] = r]
            /\ ret' = [ret EXCEPT ![m] = res]
            /\ pc' = [pc EXCEPT ![m] = task_pc_after(res)]
    /\ recvs' = [recvs EXCEPT ![m] = IF timeout = "Zero" THEN @ ELSE @ + 1]
    /\ UNCHANGED <<N, timeout, pcMain, next, inflight, k, mutex, result,
                   returned, sent, parseVars, sortVars>>

\* let mut result = result_mux.lock().await
TaskLock(m) ==
    /\ m \in 1..N
    /\ pc[m] = "lock"
    /\ lock_available
    /\ mutex' = m
    /\ pc' = [pc EXCEPT ![m] = "extend"]
    /\ UNCHANGED <<N, timeout, pcMain, next, inflight, io, ret, k, result,
                   returned, sent, recvs, parseVars, sortVars>>

\* result.extend(servers): one push per element.
TaskExtend(m) ==
    /\ m \in 1..N
    /\ pc[m] = "extend"
    /\ k[m] < Len(ret[m].val)
    /\ result' = Append(result, ret[m].val[k[m] + 1])
    /\ k' = [k EXCEPT ![m] = @ + 1]
    /\ UNCHANGED <<N, timeout, pcMain, next, pc, inflight, io, ret, mutex,
                   returned, sent, recvs, parseVars, sortVars>>

\* The guard is dropped at the end of the block and the task finishes.
TaskUnlock(m) ==
    /\ m \in 1..N
    /\ pc[m] = "extend"
    /\ k[m] = Len(ret[m].val)
    /\ mutex' = 0
    /\ pc' = [pc EXCEPT ![m] = "done"]
    /\ UNCHANGED <<N, timeout, pcMain, next, inflight, io, ret, k, result,
                   returned, sent, recvs, parseVars, sortVars>>

Task(m) ==
    TaskSend(m) \/ TaskReceive(m) \/ TaskLock(m) \/ TaskExtend(m) \/ TaskUnlock(m)

Main == MainSpawn \/ MainJoinAll \/ MainRead

Next ==
    \/ MainSpawn
    \/ MainJoinAll
    \/ MainRead
    \/ \E m \in 1..MaxMasters : TaskSend(m)
    \/ \E m \in 1..MaxMasters : TaskReceive(m)
    \/ \E m \in 1..MaxMasters : TaskLock(m)
    \/ \E m \in 1..MaxMasters : TaskExtend(m)
    \/ \E m \in 1..MaxMasters : TaskUnlock(m)

Spec == Init /\ [][Next]_vars

\* The runtime runs every spawned task and the caller's future.
FairSpec ==
    /\ Init
    /\ [][Next]_vars
    /\ WF_vars(Main)
    /\ \A m \in 1..MaxMasters : WF_vars(Task(m))

\* ------------------------------------------- parse_servers_response
ParseInit ==
    /\ FanIdle
    /\ SortIdle
    /\ response \in ResponseInputs
    /\ parsed = Pending
    /\ parsePc = "call"

ParseCall ==
    /\ parsePc = "call"
    /\ parsed' = parse_servers_response(response)
    /\ parsePc' = "ret"
    /\ UNCHANGED <<response, fanVars, sortVars>>

ParseNext == ParseCall

ParseSpec == ParseInit /\ [][ParseNext]_vars

\* ------------------------------------------------ sorted_and_unique
SortInit ==
    /\ FanIdle
    /\ ParseIdle
    /\ servers \in ListInputs
    /\ sorted = <<>>
    /\ sortedTwice = <<>>
    /\ sortPc = "call"

SortCall ==
    /\ sortPc = "call"
    /\ sorted' = sorted_and_unique(servers)
    /\ sortPc' = "once"
    /\ UNCHANGED <<servers, sortedTwice, fanVars, parseVars>>

SortAgain ==
    /\ sortPc = "once"
    /\ sortedTwice' = sorted_and_unique(sorted)
    /\ sortPc' = "twice"
    /\ UNCHANGED <<servers, sorted, fanVars, parseVars>>

SortNext == SortCall \/ SortAgain

SortSpec == SortInit /\ [][SortNext]_vars

\* ===================================================================
\* Properties
\* ===================================================================
ToSet(s) == { s[i] : i \in 1..Len(s) }

Count(s, x) == Cardinality({ i \in 1..Len(s) : s[i] = x })

\* a < b for Strings: at the first index where they differ a is smaller,
\* or a is a proper prefix of b.
StrLess(a, b) ==
    \E j \in 1..(Min(Len(a), Len(b)) + 1) :
        /\ \A i \in 1..(j - 1) : a[i] = b[i]
        /\ \/ j > Len(a) /\ j <= Len(b)
           \/ j <= Len(a) /\ j <= Len(b) /\ a[j] < b[j]

AddrLess(a, b) == StrLess(a.ip, b.ip) \/ (a.ip = b.ip /\ a.port < b.port)

StrictlyAscending(s) == \A i \in 1..(Len(s) - 1) : AddrLess(s[i], s[i + 1])

HasMagic(b) ==
    /\ Len(b) >= 6
    /\ b[1] = 255 /\ b[2] = 255 /\ b[3] = 255 /\ b[4] = 255
    /\ b[5] = 100 /\ b[6] = 10

RECURSIVE SplitDots(_)
SplitDots(s) ==
    IF \A i \in 1..Len(s) : s[i] # 46 THEN <<s>>
    ELSE LET d == CHOOSE i \in 1..Len(s) :
                      s[i] = 46 /\ \A j \in 1..(i - 1) : s[j] # 46
         IN <<SubSeq(s, 1, d - 1)>> \o SplitDots(SubSeq(s, d + 1, Len(s)))

RECURSIVE DecValue(_)
DecValue(d) ==
    IF d = <<>> THEN 0
    ELSE 10 * DecValue(SubSeq(d, 1, Len(d) - 1)) + (d[Len(d)] - 48)

CanonicalDecimal(d) ==
    /\ Len(d) >= 1
    /\ \A i \in 1..Len(d) : d[i] \in 48..57
    /\ Len(d) > 1 => d[1] # 48

\* ip is the dotted decimal form of the four octets o.
IsDotted(ip, o) ==
    LET f == SplitDots(ip)
    IN /\ Len(f) = 4
       /\ \A i \in 1..4 : CanonicalDecimal(f[i]) /\ DecValue(f[i]) = o[i]

Called(m) == m \in 1..N /\ io[m] # Pending
Succeeded(m) == Called(m) /\ io[m].ok /\ HasMagic(io[m].val)
Failed(m) == Called(m) /\ ~Succeeded(m)
AllDone == next = N + 1 /\ \A m \in 1..N : pc[m] = "done"

\* C1: whatever the masters do and however the tasks interleave,
\* server_addresses_from_many returns the strictly ascending (sorted,
\* duplicate-free) list of exactly the addresses found in the replies of the
\* masters that succeeded; failed masters contribute nothing, and with no
\* master or no success the list is empty.
C1_SortedUnionOfSuccesses ==
    pcMain = "returned" =>
        /\ StrictlyAscending(returned)
        /\ ToSet(returned) =
               UNION { ToSet(parse_servers_response(io[m].val).val) :
                       m \in { n \in 1..N : Succeeded(n) } }
        /\ (\A m \in 1..N : ~Succeeded(m)) => returned = <<>>

C1_Witness ==
    /\ pcMain = "returned"
    /\ \E m \in 1..N : Failed(m)
    /\ \E m \in 1..N : Succeeded(m)
    /\ Len(returned) >= 2

RECURSIVE AppendedBy(_, _)
\* How often x has been appended by the tasks 1..n.
AppendedBy(x, n) ==
    IF n = 0 THEN 0
    ELSE AppendedBy(x, n - 1) + Count(SubSeq(ret[n].val, 1, k[n]), x)

\* C2: at most one task is inside the append at any time and it holds the
\* lock; the accumulator always holds exactly what the tasks have appended
\* so far, and once all tasks have finished it holds every successful
\* master's whole list, as a multiset.
C2_SerializedAppend ==
    /\ Cardinality({ m \in 1..N : pc[m] = "extend" }) <= 1
    /\ \A m \in 1..N : pc[m] = "extend" => mutex = m
    /\ \A x \in ToSet(result) \cup UNION { ToSet(ret[m].val) : m \in 1..N } :
           Count(result, x) = AppendedBy(x, N)
    /\ AllDone => \A m \in 1..N : k[m] = Len(ret[m].val)

C2_Witness ==
    /\ AllDone
    /\ \E m1, m2 \in 1..N :
           /\ m1 # m2
           /\ ret[m1].ok /\ ret[m2].ok
           /\ ToSet(ret[m1].val) \cap ToSet(ret[m2].val) # {}
    /\ Len(result) = 4

\* C3: the accumulator is read, and the call returns, only after every
\* spawned task has finished; before that nothing has been returned.
C3_ReturnsAfterAllTasks ==
    /\ pcMain \in {"read", "returned"} =>
           next = N + 1 /\ \A m \in 1..N : pc[m] = "done"
    /\ pcMain # "returned" => returned = <<>>
    /\ pcMain = "returned" => ToSet(returned) = ToSet(result)

C3_Witness ==
    /\ pcMain = "returned"
    /\ N >= 2
    /\ \E m \in 1..N : io[m].err.cause = "timeout"
    /\ \E m \in 1..N : ret[m].ok /\ ret[m].val # <<>>

\* C4: parse_servers_response fails with "Invalid response" exactly on the
\* buffers that do not start with FF FF FF FF 64 0A (the empty and the short
\* ones included) and succeeds on all others; the bare header gives the
\* empty list.
C4_HeaderValidation ==
    parsePc = "ret" =>
        /\ parsed.ok <=> HasMagic(response)
        /\ ~parsed.ok => parsed.err.cause = "Invalid response" /\ parsed.val = <<>>
        /\ Len(response) = 6 /\ HasMagic(response) => parsed.val = <<>>

C4_Witness ==
    /\ parsePc = "ret"
    /\ ~parsed.ok
    /\ Len(response) >= 12
    /\ \A i \in 1..4 : response[i] = 255

\* C5: after the header, a body of L bytes gives floor(L/6) addresses in wire
\* order; the i-th has the dotted decimal form of its first four bytes as ip
\* and 256*b4 + b5 as port; a trailing remainder is dropped.
C5_RecordsInWireOrder ==
    parsePc = "ret" /\ HasMagic(response) =>
        LET L == Len(response) - 6
        IN /\ parsed.ok
           /\ Len(parsed.val) = L \div 6
           /\ \A i \in 1..(L \div 6) :
                  LET at == 6 + 6 * (i - 1)
                  IN /\ IsDotted(parsed.val[i].ip,
                                 <<response[at + 1], response[at + 2],
                                   response[at + 3], response[at + 4]>>)
                     /\ parsed.val[i].port =
                            256 * response[at + 5] + response[at + 6]

C5_Witness ==
    /\ parsePc = "ret"
    /\ HasMagic(response)
    /\ (Len(response) - 6) % 6 = 5
    /\ Len(parsed.val) = 2
    /\ parsed.val[1].port = 256
    /\ parsed.val[2].ip = <<49, 57, 50, 46, 49, 54, 56, 46, 48, 46, 50, 53, 53>>

\* C6: sorted_and_unique gives a list strictly ascending by (ip as a string,
\* then port as a number) with exactly the distinct elements of its input,
\* and applying it to its own output changes nothing.
C6_SortedUniqueIdempotent ==
    /\ sortPc \in {"once", "twice"} =>
           StrictlyAscending(sorted) /\ ToSet(sorted) = ToSet(servers)
    /\ sortPc = "twice" => sortedTwice = sorted

C6_Witness ==
    /\ sortPc = "twice"
    /\ Len(servers) = 3
    /\ Len(sorted) = 2
    /\ servers[1] = servers[3]
    /\ sorted[1] = servers[2]
    /\ sorted[1].ip = <<49, 46, 49, 46, 49, 46, 49, 48>>
    /\ sorted[2].ip = <<49, 46, 49, 46, 49, 46, 57>>

\* C7: server_addresses fails exactly when the transport failed or the reply
\* lacks the header, with that very error and no addresses; otherwise it
\* gives the strictly ascending list of the distinct addresses of the reply.
C7_SingleMasterResult ==
    \A m \in 1..N : Called(m) =>
        /\ ~ret[m].ok <=> (~io[m].ok \/ ~HasMagic(io[m].val))
        /\ ~io[m].ok => ret[m] = io[m]
        /\ io[m].ok /\ ~HasMagic(io[m].val) =>
               ret[m] = parse_servers_response(io[m].val)
                   /\ ret[m].err.cause = "Invalid response"
        /\ ~ret[m].ok => ret[m].val = <<>>
        /\ ret[m].ok =>
               /\ StrictlyAscending(ret[m].val)
               /\ ToSet(ret[m].val) =
                      ToSet(parse_servers_response(io[m].val).val)

C7_Witness ==
    \E m1, m2 \in 1..N :
        /\ io[m1] # Pending /\ io[m1].ok /\ ~ret[m1].ok
        /\ ret[m2].ok
        /\ ret[m2].val # parse_servers_response(io[m2].val).val

\* C8: every failure of send_and_receive carries the tag of the phase that
\* failed (connect, send or receive) in front of its cause.
C8_EveryFailureTagged ==
    \A m \in 1..N : Called(m) /\ ~io[m].ok =>
        /\ io[m].err.tag \in {"udp::connect", "udp::send", "udp::receive"}
        /\ io[m].err.cause # ""

SendFailed(m) == ~io[m].ok /\ io[m].err.cause \in {"bind", "connect", "send"}

\* C9 as stated: every master has been sent exactly one query datagram.
C9_ExactlyOneDatagram ==
    pcMain = "returned" =>
        \A m \in 1..N : Len(sent[m]) = 1 /\ recvs[m] <= 1

\* C9: each master is sent at most one query datagram, the bytes 63 0A 00:
\* none when bind, connect or send failed, else exactly one; at most one
\* recv follows it, and a finished task has attempted nothing further.
C9_AtMostOneAttempt ==
    \A m \in 1..N :
        /\ Len(sent[m]) <= 1
        /\ \A i \in 1..Len(sent[m]) : sent[m][i] = <<99, 10, 0>>
        /\ recvs[m] <= Len(sent[m])
        /\ pc[m] \in {"lock", "extend", "done"} =>
               Len(sent[m]) = (IF SendFailed(m) THEN 0 ELSE 1)

C9_Witness ==
    /\ pcMain = "returned"
    /\ \E m \in 1..N : io[m].err.cause = "connect" /\ Len(sent[m]) = 0
    /\ \E m \in 1..N :
           io[m].err.cause = "timeout" /\ Len(sent[m]) = 1 /\ recvs[m] = 1

Finished(m) == m \notin 1..N \/ pc[m] = "done"
WaitsForLock(m) == m \in 1..N /\ pc[m] = "lock"

\* C10: with a timeout supplied, under fair scheduling the call returns and
\* every task finishes, whatever the masters do; a task waiting for the lock
\* gets it, and the final read finds the lock free.
C10_Resolves ==
    /\ (timeout # "None") ~>
           (pcMain = "returned" /\ \A m \in 1..MaxMasters : Finished(m))
    /\ \A m \in 1..MaxMasters : WaitsForLock(m) ~> ~WaitsForLock(m)
    /\ [](pcMain = "read" => mutex = 0)

C10_Witness ==
    /\ timeout = "Some"
    /\ pcMain = "returned"
    /\ \E m \in 1..N : inflight[m].kind = "silent"
    /\ \E m \in 1..N : inflight[m].kind = "reply" /\ ~ret[m].ok

====
